---- MODULE Spec2Model ----
(***************************************************************************)
(* Model of pages/recommender_system.py: the loaded artifacts (the         *)
(* distance DataFrame location_df and the arrays cosine_sim1..3), the      *)
(* "Recommend" handler (recommend_properties_with_scores) and the          *)
(* "Search Nearby" handler of the radius tab.                              *)
(*                                                                         *)
(* Representation.                                                         *)
(*  - A Python str is a sequence of one-character strings.                 *)
(*  - An axis label of the DataFrame is a record: a str label or an int    *)
(*    label (astype(str) turns the second into its decimal digits).        *)
(*  - A float is an integer count of tenths for similarities (10 is 1.0)   *)
(*    and of metres for distances.  Products and sums of floats are        *)
(*    rounded to Prec significant bits, round-half-to-even, as IEEE-754    *)
(*    does with 53 bits; Prec is small so that values stay in range.       *)
(*  - Positions count from 1: position i here is Python's index i - 1.     *)
(***************************************************************************)
EXTENDS Integers, Sequences, FiniteSets, TLC

\* ------------------------------------------------------------------ bounds
\* significand bits of the modelled binary floating-point format
Prec == 6
\* largest top_n a request asks for
MaxTopN == 4
\* rows of the large distance table (more than the display cap)
BigRows == 17
\* 1.0 in tenths
SimOne == 10
\* properties asked for by name
MaxTargets == 4
\* runs followed after a remembered one
MaxLog == 2
\* identifiers of the universes the resolver is tried on
MaxNames == 3

\* --------------------------------------------------------- Python strings
\* the characters in use, in code point order
Alphabet == << "-", "0", "1", "2", "3", "4", "5", "6", "7", "8", "9",
               "A", "B", "C", "D", "P", "S",
               "a", "c", "e", "n", "o", "r", "t", "w", "x", "z" >>

Ord(c) == CHOOSE i \in 1..Len(Alphabet) : Alphabet[i] = c

Min2(a, b) == IF a <= b THEN a ELSE b

\* Python's s < t on str: lexicographic by code point, a proper prefix first
RECURSIVE StrLessFrom(_, _, _)
StrLessFrom(s, t, i) ==
    IF i > Len(t) THEN FALSE
    ELSE IF i > Len(s) THEN TRUE
    ELSE IF s[i] # t[i] THEN Ord(s[i]) < Ord(t[i])
    ELSE StrLessFrom(s, t, i + 1)

StrLess(s, t) == StrLessFrom(s, t, 1)

\* str(n) for a non-negative int
RECURSIVE Digits(_)
Digits(n) ==
    IF n < 10 THEN << Alphabet[n + 2] >>
    ELSE Digits(n \div 10) \o << Alphabet[(n % 10) + 2] >>

\* ------------------------------------------------------------- axis labels
StrLabel(s) == [int |-> FALSE, s |-> s, n |-> 0]
IntLabel(n) == [int |-> TRUE, s |-> << >>, n |-> n]

\* Index.astype(str) on one label
AsStr(l) == IF l.int THEN Digits(l.n) ELSE l.s

\* `name in index` for a str name: an int label never equals a str
LabelIs(l, name) == (~l.int) /\ l.s = name

\* ------------------------------------------------------------------ floats
RECURSIVE BitLength(_)
BitLength(x) == IF x = 0 THEN 0 ELSE 1 + BitLength(x \div 2)

RECURSIVE Pow2(_)
Pow2(e) == IF e = 0 THEN 1 ELSE 2 * Pow2(e - 1)

\* round a non-negative exact value to Prec significant bits, half to even
Round(x) ==
    IF BitLength(x) <= Prec THEN x
    ELSE LET q == Pow2(BitLength(x) - Prec)
             m == x \div q
             r == x % q
         IN  IF 2 * r > q \/ (2 * r = q /\ m % 2 = 1)
             THEN (m + 1) * q
             ELSE m * q

FMul(x, y) == Round(x * y)
FAdd(x, y) == Round(x + y)

\* --------------------------------------------------------------- matrices
\* w * A for a scalar w and an array A (numpy, elementwise)
MatScale(w, A) ==
    [i \in 1..Len(A) |-> [j \in 1..Len(A[i]) |-> FMul(w, A[i][j])]]

\* the shape of a two-dimensional array
Rows(A) == Len(A)
Cols(A) == IF A = << >> THEN 0 ELSE Len(A[1])

\* numpy's broadcasting of one axis: equal lengths, or a length of 1 stretched
\* to the other; 0 when the lengths cannot be broadcast together
BroadcastDim(a, b) ==
    IF a = b THEN a ELSE IF a = 1 THEN b ELSE IF b = 1 THEN a ELSE 0

\* the entry of A that broadcasting puts at (i, j)
At(A, i, j) == A[IF Rows(A) = 1 THEN 1 ELSE i][IF Cols(A) = 1 THEN 1 ELSE j]

\* the outcome of an operation that raised "operands could not be broadcast
\* together": no array (the loaded arrays all have rows)
Unbroadcast == << >>

\* A + B (numpy, elementwise, the shapes broadcast together)
MatAdd(A, B) ==
    LET r == BroadcastDim(Rows(A), Rows(B))
        c == BroadcastDim(Cols(A), Cols(B))
    IN  IF A = Unbroadcast \/ B = Unbroadcast \/ r = 0 \/ c = 0 THEN Unbroadcast
        ELSE [i \in 1..r |-> [j \in 1..c |-> FAdd(At(A, i, j), At(B, i, j))]]

\* ------------------------------------------------------------------ difflib
\* length of the common run of a and b that starts at a[i], b[j] and stays
\* below ahi, bhi (positions are 1-based, ahi and bhi exclusive)
RECURSIVE RunLen(_, _, _, _, _, _)
RunLen(a, b, i, j, ahi, bhi) ==
    IF i < ahi /\ j < bhi /\ a[i] = b[j]
    THEN 1 + RunLen(a, b, i + 1, j + 1, ahi, bhi)
    ELSE 0

\* SequenceMatcher.find_longest_match: the longest block, of those the one
\* that starts earliest in a, of those the one that starts earliest in b
find_longest_match(a, b, alo, ahi, blo, bhi) ==
    LET Starts == (alo..(ahi - 1)) \X (blo..(bhi - 1))
        K(p) == RunLen(a, b, p[1], p[2], ahi, bhi)
        Best(p) == \A q \in Starts :
                      \/ K(q) < K(p)
                      \/ K(q) = K(p) /\ (p[1] < q[1] \/ (p[1] = q[1] /\ p[2] <= q[2]))
    IN  IF Starts = {} THEN << alo, blo, 0 >>
        ELSE LET p == CHOOSE p \in Starts : Best(p)
             IN  << p[1], p[2], K(p) >>

\* the number of matched characters over SequenceMatcher.get_matching_blocks
RECURSIVE Matches(_, _, _, _, _, _)
Matches(a, b, alo, ahi, blo, bhi) ==
    LET m == find_longest_match(a, b, alo, ahi, blo, bhi)
    IN  IF m[3] = 0 THEN 0
        ELSE m[3] + Matches(a, b, alo, m[1], blo, m[2])
                  + Matches(a, b, m[1] + m[3], ahi, m[2] + m[3], bhi)

\* SequenceMatcher(None, a, b).ratio() = 2.0 * matches / (len(a) + len(b)),
\* kept as the pair <<numerator, denominator>> (1.0 for two empty strings)
ratio(a, b) ==
    IF Len(a) + Len(b) = 0 THEN << 1, 1 >>
    ELSE << 2 * Matches(a, b, 1, Len(a) + 1, 1, Len(b) + 1), Len(a) + Len(b) >>

\* r >= 0.6
MeetsCutoff(r) == 10 * r[1] >= 6 * r[2]

\* (score, x) < (score', x') on the tuples get_close_matches collects
ScoredLess(r, x, rr, xx) ==
    \/ r[1] * rr[2] < rr[1] * r[2]
    \/ r[1] * rr[2] = rr[1] * r[2] /\ StrLess(x, xx)

\* the cutoff taken as 0.5
get_close_matches_half(word, possibilities) ==
    LET Cand == { i \in 1..Len(possibilities) :
                     2 * ratio(possibilities[i], word)[1] >= ratio(possibilities[i], word)[2] }
        IsMax(i) == \A k \in Cand :
                       ~ScoredLess(ratio(possibilities[i], word), possibilities[i],
                                   ratio(possibilities[k], word), possibilities[k])
    IN  IF Cand = {} THEN << >>
        ELSE << possibilities[CHOOSE i \in Cand : IsMax(i)] >>

\* get_close_matches(word, possibilities, n=1, cutoff=0.6): the best of the
\* possibilities whose ratio meets the cutoff, as a list of at most one
get_close_matches(word, possibilities) ==
    LET Cand == { i \in 1..Len(possibilities) :
                     MeetsCutoff(ratio(possibilities[i], word)) }
        IsMax(i) == \A k \in Cand :
                       ~ScoredLess(ratio(possibilities[i], word), possibilities[i],
                                   ratio(possibilities[k], word), possibilities[k])
    IN  IF Cand = {} THEN << >>
        ELSE << possibilities[CHOOSE i \in Cand : IsMax(i)] >>

\* ----------------------------------------------------------------- pandas
\* Index.astype(str)
IndexAsStr(labels) == [i \in 1..Len(labels) |-> AsStr(labels[i])]

\* `name in df.index`
InIndex(labels, name) == \E i \in 1..Len(labels) : LabelIs(labels[i], name)

\* Index.get_loc(name): the position of the label, 0 for a KeyError
get_loc(labels, name) ==
    IF InIndex(labels, name)
    THEN CHOOSE i \in 1..Len(labels) : LabelIs(labels[i], name)
    ELSE 0

None == [found |-> FALSE, v |-> << >>]
Some(s) == [found |-> TRUE, v |-> s]

\* whether get_close_matches was called on the way to the result
Exact == [fuzzy |-> FALSE]
Close == [fuzzy |-> TRUE]

\* the test for the exact label left out: every name goes to get_close_matches
safe_get_index_close_only(labels, name) ==
    LET matches == get_close_matches(name, IndexAsStr(labels))
    IN  IF matches # << >> THEN Some(matches[1]) @@ Close ELSE None @@ Close

\* the name given back whether it was found or not
safe_get_index_unchecked(labels, name) == Some(name) @@ Exact

\* _safe_get_index(df, name): the exact label, else the nearest match, else None
safe_get_index(labels, name) ==
    IF InIndex(labels, name) THEN Some(name) @@ Exact
    ELSE LET matches == get_close_matches(name, IndexAsStr(labels))
         IN  IF matches # << >> THEN Some(matches[1]) @@ Close ELSE None @@ Close

\* -------------------------------------------------------------------- state
VARIABLES
    location_df,    \* the distance DataFrame: [index, columns, data]
    cosine_sim1,    \* the three similarity arrays, rows and columns in the
    cosine_sim2,    \*   order of location_df.index
    cosine_sim3,
    pickles,        \* the four files under datasets/: what each holds
    pc,             \* where the script is: the loads, the check, the page
    last,           \* the latest run of a handler: its inputs, locals, outcome
    earlier,        \* a run of a handler made before the latest one
    log,            \* the inputs of the runs made since that one
    threads         \* the handlers running side by side: position and locals

vars == << location_df, cosine_sim1, cosine_sim2, cosine_sim3, pickles, pc,
           last, earlier, log, threads >>

artifacts == << location_df, cosine_sim1, cosine_sim2, cosine_sim3 >>

\* ------------------------------------------------------- recommendation
\* the weights brought down to a largest weight of 1 before the sum
combine_rescaled(w1, w2, w3) ==
    LET top == IF w1 >= w2 /\ w1 >= w3 THEN w1 ELSE IF w2 >= w3 THEN w2 ELSE w3
        n(w) == IF top = 0 THEN w ELSE w \div top
    IN  MatAdd(MatAdd(MatScale(n(w1), cosine_sim1), MatScale(n(w2), cosine_sim2)),
               MatScale(n(w3), cosine_sim3))

\* the first array added without its weight
combine_first_unweighted(w1, w2, w3) ==
    MatAdd(MatAdd(cosine_sim1, MatScale(w2, cosine_sim2)), MatScale(w3, cosine_sim3))

\* the composite of the run before, kept and used again
combine_cached(w1, w2, w3) ==
    IF last.cos_mat # << >> THEN last.cos_mat
    ELSE MatAdd(MatAdd(MatScale(w1, cosine_sim1), MatScale(w2, cosine_sim2)),
                MatScale(w3, cosine_sim3))

\* the three arrays multiplied where they are, as with `cosine_sim1 *= w1`
arrays_scaled_in_place(w1, w2, w3) ==
    << MatScale(w1, cosine_sim1), MatScale(w2, cosine_sim2), MatScale(w3, cosine_sim3) >>

\* the three arrays once combine_similarity has run: w * A and A + B make new
\* arrays and leave their operands as they were
arrays_after_combine(w1, w2, w3) == << cosine_sim1, cosine_sim2, cosine_sim3 >>

\* combine_similarity(w1, w2, w3)
combine_similarity(w1, w2, w3) ==
    MatAdd(MatAdd(MatScale(w1, cosine_sim1), MatScale(w2, cosine_sim2)),
           MatScale(w3, cosine_sim3))

\* list(enumerate(row)): the pairs <<i, score>>, i counted from 1 here
Enumerate(row) == [i \in 1..Len(row) |-> << i, row[i] >>]

\* one step of a stable sort by score, descending: x goes behind every pair
\* already placed whose score is at least its own
RECURSIVE InsertDesc(_, _)
InsertDesc(placed, x) ==
    IF placed = << >> THEN << x >>
    ELSE IF Head(placed)[2] >= x[2]
         THEN << Head(placed) >> \o InsertDesc(Tail(placed), x)
         ELSE << x >> \o placed

RECURSIVE SortFrom(_, _, _)
SortFrom(placed, pairs, n) ==
    IF n > Len(pairs) THEN placed
    ELSE SortFrom(InsertDesc(placed, pairs[n]), pairs, n + 1)

RECURSIVE InsertAsc(_, _)
InsertAsc(placed, x) ==
    IF placed = << >> THEN << x >>
    ELSE IF Head(placed)[2] <= x[2]
         THEN << Head(placed) >> \o InsertAsc(Tail(placed), x)
         ELSE << x >> \o placed

RECURSIVE SortAscFrom(_, _, _)
SortAscFrom(placed, pairs, n) ==
    IF n > Len(pairs) THEN placed
    ELSE SortAscFrom(InsertAsc(placed, pairs[n]), pairs, n + 1)

\* the sort without reverse=True
sorted_ascending(sim_scores) == SortAscFrom(<< >>, sim_scores, 1)

\* an ascending sort turned round: equal scores come out highest index first
sorted_then_reversed(sim_scores) ==
    LET up == SortAscFrom(<< >>, sim_scores, 1)
    IN  [r \in 1..Len(up) |-> up[Len(up) + 1 - r]]

\* sorted(sim_scores, key=lambda x: x[1], reverse=True): Python's sort is
\* stable, and with reverse=True equal keys keep their original order
sorted_scores(sim_scores) == SortFrom(<< >>, sim_scores, 1)

\* the cut at top_n made before the target is taken out
filtered_after_cut(sorted, idx, top_n) ==
    SelectSeq(SubSeq(sorted, 1, Min2(top_n, Len(sorted))), LAMBDA p : p[1] # idx)

\* the first pair dropped as if it were always the target
filtered_drop_first(sorted, idx, top_n) ==
    SubSeq(sorted, 2, Min2(top_n + 1, Len(sorted)))

\* [(i, s) for (i, s) in sorted_scores if i != idx][:top_n], top_n >= 1
filtered(sorted, idx, top_n) ==
    LET rest == SelectSeq(sorted, LAMBDA p : p[1] # idx)
    IN  SubSeq(rest, 1, Min2(top_n, Len(rest)))

\* the DataFrame out: Rank, Property, Similarity (float(s) is exact on a
\* numpy float)
RankedFrame(labels, kept) ==
    [r \in 1..Len(kept) |->
        [Rank |-> r, Property |-> labels[kept[r][1]], Similarity |-> kept[r][2]]]

\* the messages of numpy's and pandas' own errors
BroadcastText == << "operands could not be broadcast together" >>
OutOfBoundsText == << "index is out of bounds" >>

NoLocals == [target |-> << >>, idx |-> 0, cos_mat |-> << >>, out |-> << >>]

\* a raise out of recommend_properties_with_scores: the error, its text, and
\* no locals left
Raised(error, text, fuzzy, arrays) ==
    [raised |-> error, text |-> text, fuzzy |-> fuzzy, arrays |-> arrays] @@ NoLocals

\* lines 91-100: top_names = location_df.index[top_indices] and the DataFrame
ranked(target, cos_mat, arrays, idx, kept) ==
    IF \E r \in 1..Len(kept) : kept[r][1] > Len(location_df.index)
    THEN Raised("IndexError", OutOfBoundsText, target.fuzzy, arrays)
    ELSE [raised |-> "", text |-> << >>, fuzzy |-> target.fuzzy, arrays |-> arrays,
          target |-> target.v, idx |-> idx, cos_mat |-> cos_mat,
          out |-> RankedFrame(location_df.index, kept)]

\* lines 82-90: the composite, the target's position, its row sorted and cut
combined(target, cos_mat, arrays, idx, top_n) ==
    IF cos_mat = Unbroadcast THEN Raised("ValueError", BroadcastText, target.fuzzy, arrays)
    ELSE IF idx = 0 THEN Raised("KeyError", target.v, target.fuzzy, arrays)
    ELSE IF idx > Rows(cos_mat) THEN Raised("IndexError", OutOfBoundsText, target.fuzzy, arrays)
    ELSE ranked(target, cos_mat, arrays, idx,
                filtered(sorted_scores(Enumerate(cos_mat[idx])), idx, top_n))

\* lines 79-83: the raise for a name not found, else the composite and get_loc
resolved(target, property_name, top_n, w1, w2, w3) ==
    IF ~target.found
    THEN Raised("ValueError", property_name, target.fuzzy, << cosine_sim1, cosine_sim2, cosine_sim3 >>)
    ELSE combined(target, combine_similarity(w1, w2, w3), arrays_after_combine(w1, w2, w3),
                  get_loc(location_df.index, target.v), top_n)

\* recommend_properties_with_scores(property_name, top_n, w1, w2, w3):
\* what it raises ("" when it returns) and its locals
recommend_properties_with_scores(property_name, top_n, w1, w2, w3) ==
    resolved(safe_get_index(location_df.index, property_name),
             property_name, top_n, w1, w2, w3)

\* ----------------------------------------------------------- radius search
\* the slider: radius_km from 0.5 to 25.0 in steps of 0.5, held as 2 * radius_km
MinTwoRadius == 1
MaxTwoRadius == 50

\* the slider positions tried: 0.5, 1.0, 1.5 and 25.0 km
RadiusChoices == { MinTwoRadius, 2, 3, MaxTwoRadius }

\* the display cap of ser.head(15)
DisplayCap == 15

\* twice the radius taken for the radius
threshold_of_twice(two_radius) == two_radius * 1000

\* radius_km * 1000, in metres (exact in binary floating point for every
\* slider value, so it is not rounded here)
ThresholdMetres(two_radius) == (two_radius * 1000) \div 2

\* the comparison made with <= in place of <
at_or_below_threshold(c, threshold) ==
    { << i, location_df.data[i][c] >> :
        i \in { k \in 1..Len(location_df.index) : location_df.data[k][c] <= threshold } }

\* the row of the reference location itself taken out of the result
below_threshold_without_self(c, threshold) ==
    { << i, location_df.data[i][c] >> :
        i \in { k \in 1..Len(location_df.index) :
                    /\ location_df.data[k][c] < threshold
                    /\ AsStr(location_df.index[k]) # AsStr(location_df.columns[c]) } }

\* location_df[location_df[col] < threshold][col]: the entries <<row, distance>>
\* of column c below the threshold
BelowThreshold(c, threshold) ==
    { << i, location_df.data[i][c] >> :
        i \in { k \in 1..Len(location_df.index) : location_df.data[k][c] < threshold } }

\* Series.sort_values(): ascending; the default sort is not stable, so equal
\* distances come out in any order
RECURSIVE sort_values(_)
sort_values(entries) ==
    IF entries = {} THEN { << >> }
    ELSE LET least == { e \in entries : \A o \in entries : e[2] <= o[2] }
         IN  UNION { { << e >> \o t : t \in sort_values(entries \ {e}) } : e \in least }

\* Series.head(n)
head(ser, n) == SubSeq(ser, 1, Min2(n, Len(ser)))

\* an empty result reported as a failure
outcome_empty_fails(ser) == IF ser = << >> THEN "error" ELSE "table"

\* if ser.empty: st.info(...) else: the table and the chart
radius_outcome(ser) == IF ser = << >> THEN "info" ELSE "table"

\* the table itself sorted by the column, as with sort_values(..., inplace=True)
frame_sorted_in_place(c) ==
    LET all == { << i, location_df.data[i][c] >> : i \in 1..Len(location_df.index) }
        order == CHOOSE o \in sort_values(all) : TRUE
    IN  [location_df EXCEPT
            !.index = [r \in 1..Len(order) |-> location_df.index[order[r][1]]],
            !.data = [r \in 1..Len(order) |-> location_df.data[order[r][1]]]]

\* location_df once the search has run: the boolean mask, the selection,
\* sort_values() and head() each return a new object
frame_after_search(c) == location_df

\* the DataFrame out: Rank, Property (index.astype(str)), Distance
RadiusFrame(ser) ==
    [r \in 1..Len(ser) |->
        [Rank |-> r, Property |-> AsStr(location_df.index[ser[r][1]]),
         Distance |-> ser[r][2]]]

\* _list_to_sorted_unique(seq), as the set of options of the selectbox
list_to_sorted_unique(labels) == { AsStr(labels[i]) : i \in 1..Len(labels) }

\* -------------------------------------------------------------- artifacts
Identity(n) == [i \in 1..n |-> [j \in 1..n |-> IF i = j THEN SimOne ELSE 0]]

\* the matrix whose row i is v turned right by i - 1 places: over all v it
\* puts every row of values at every target index
Circulant(v) ==
    [i \in 1..Len(v) |-> [j \in 1..Len(v) |-> v[((j - i + Len(v)) % Len(v)) + 1]]]

Frame(index, columns, data) ==
    [type |-> "DataFrame", index |-> index, columns |-> columns, data |-> data]

\* the four pickled objects, and the files among them that cannot be read
Loaded(df, s1, s2, s3) == [df |-> df, s1 |-> s1, s2 |-> s2, s3 |-> s3, bad |-> {}]

Downtown == << "D", "o", "w", "n", "t", "o", "w", "n" >>
Centre == << "C", "e", "n", "t", "r", "e" >>

\* the universe and matrices of the worked example: identity, but (0, 1) = 0.9
\* in the first
SectorNames == << StrLabel(<< "S", "e", "c", "t", "o", "r", "-", "1", "-", "A" >>),
                  StrLabel(<< "S", "e", "c", "t", "o", "r", "-", "1", "-", "B" >>),
                  StrLabel(<< "S", "e", "c", "t", "o", "r", "-", "2", "-", "A" >>) >>

SectorData ==
    Loaded(Frame(SectorNames, << StrLabel(Downtown) >>, << << 700 >>, << 0 >>, << 2500 >> >>),
           [Identity(3) EXCEPT ![1][2] = 9], Identity(3), Identity(3))

\* four properties and every row of similarity levels in the first matrix
SimLevels == { 0, 9, SimOne }

BlockNames == << StrLabel(<< "A", "-", "1" >>), StrLabel(<< "A", "-", "2" >>),
                 StrLabel(<< "B", "-", "1" >>), StrLabel(<< "B", "-", "2" >>) >>

BlockFrame ==
    Frame(BlockNames, << StrLabel(Downtown) >>,
          << << 400 >>, << 500 >>, << 400 >>, << 12000 >> >>)

BlockData ==
    { Loaded(BlockFrame, Circulant(v), Circulant(<< SimOne, 1, 2, 3 >>),
             Circulant(<< SimOne, 8, 6, 4 >>)) : v \in [1..4 -> SimLevels] }

\* three properties and every column of distances to one location
Distances == { 300, 1000, 1200, 6000 }

TownNames == << StrLabel(<< "A" >>), StrLabel(<< "B" >>), StrLabel(<< "C" >>) >>

TownData ==
    { Loaded(Frame(TownNames, << StrLabel(Downtown) >>, [i \in 1..3 |-> << d[i] >>]),
             Identity(3), Identity(3), Identity(3)) : d \in [1..3 -> Distances] }

\* more properties than the display cap: in the first column distinct
\* distances, all but one below 500 m and that one 500 m; in the second equal
\* distances around the cap; the third column has an int label
BigNames ==
    [i \in 1..BigRows |-> StrLabel(<< "P" >> \o (IF i < 10 THEN << "0" >> ELSE << >>) \o Digits(i))]

BigSim(t) ==
    [i \in 1..BigRows |-> [j \in 1..BigRows |->
        IF i = j THEN SimOne ELSE ((i * j) + t) % (SimOne + 1)]]

BigData ==
    Loaded(Frame(BigNames, << StrLabel(Downtown), StrLabel(Centre), IntLabel(7) >>,
                 [i \in 1..BigRows |->
                    << 500 - 25 * ((i * 5) % BigRows),
                       IF i < DisplayCap - 1 THEN 10 * i ELSE 10 * DisplayCap,
                       1000 * i >>]),
           BigSim(1), BigSim(2), BigSim(3))

\* a square table: the three properties are the three locations, each at
\* distance 0 from itself, and every choice of the distances between them
Spacings == { 0, 300, 1200 }

SquareData ==
    { Loaded(Frame(TownNames, TownNames,
                   << << 0, d[1], d[2] >>, << d[1], 0, d[3] >>, << d[2], d[3], 0 >> >>),
             Identity(3), Identity(3), Identity(3)) : d \in [1..3 -> Spacings] }

\* more properties than the display cap, one of them the reference location
Dist(i, j) == IF i >= j THEN i - j ELSE j - i

LineData ==
    Loaded(Frame(BigNames, << BigNames[3] >>, [i \in 1..BigRows |-> << 40 * Dist(i, 3) >>]),
           BigSim(1), BigSim(2), BigSim(3))

Datasets == { SectorData, BigData, LineData } \cup BlockData \cup TownData \cup SquareData

\* --------------------------------------------------------------- requests
ExtraNames == { << "A", "-", "3" >>, << "z", "z", "z" >> }

\* the names asked for: the first MaxTargets properties and the extra names
QueryNames ==
    { AsStr(location_df.index[i]) : i \in 1..Min2(MaxTargets, Len(location_df.index)) }
        \cup ExtraNames

\* the weights of the page (30, 20, 8), of the worked example, and others
Weights == { << 30, 20, 8 >>, << 1, 0, 0 >> }

NoRun == [kind |-> "none", name |-> << >>, top_n |-> 0, w |-> << 0, 0, 0 >>,
          two_radius |-> 0, outcome |-> "none", raised |-> "", text |-> << >>,
          fuzzy |-> FALSE,
          target |-> << >>, idx |-> 0, cos_mat |-> << >>, out |-> << >>]

\* the inputs of a run
Request(run) == [kind |-> run.kind, name |-> run.name, top_n |-> run.top_n,
                 w |-> run.w, two_radius |-> run.two_radius]

\* ------------------------------------------------------------------ actions
\* no handler is running side by side
Threads == { 1, 2 }

Idle == [pc |-> "idle", kind |-> "none", name |-> << >>, top_n |-> 0,
         w |-> << 0, 0, 0 >>, two_radius |-> 0, target |-> << >>, partial |-> << >>,
         cos_mat |-> << >>, idx |-> 0, mask |-> {}, entries |-> {}, out |-> << >>,
         outcome |-> "none", raised |-> "", overlapped |-> FALSE]

\* the page once the script has loaded the four files and passed the check
InitWith(datasets) ==
    /\ \E d \in datasets :
          /\ pickles = d
          /\ location_df = d.df
          /\ cosine_sim1 = d.s1
          /\ cosine_sim2 = d.s2
          /\ cosine_sim3 = d.s3
    /\ pc = "page"
    /\ last = NoRun
    /\ earlier = NoRun
    /\ log = << >>
    /\ threads = [t \in Threads |-> Idle]

Init == InitWith(Datasets)

\* a run is logged once an earlier run is remembered, up to MaxLog runs
CanRun == pc = "page" /\ (earlier.kind # "none" => Len(log) < MaxLog)

\* the run is kept, and the loaded objects are as the run left them
Logged(run, frame, arrays) ==
    /\ last' = run
    /\ log' = IF earlier.kind # "none" THEN Append(log, Request(run)) ELSE log
    /\ location_df' = frame
    /\ cosine_sim1' = arrays[1]
    /\ cosine_sim2' = arrays[2]
    /\ cosine_sim3' = arrays[3]
    /\ UNCHANGED << pickles, pc, earlier, threads >>

Arrays == << cosine_sim1, cosine_sim2, cosine_sim3 >>

\* the "Recommend" button: recommend_properties_with_scores inside try/except
RecommendCall(property_name, top_n, w) ==
    /\ CanRun
    /\ \E r \in { recommend_properties_with_scores(property_name, top_n, w[1], w[2], w[3]) } :
          Logged([NoRun EXCEPT !.kind = "recommend", !.name = property_name,
                     !.top_n = top_n, !.w = w,
                     !.outcome = IF r.raised = "" THEN "results" ELSE "error",
                     !.raised = r.raised, !.text = r.text, !.fuzzy = r.fuzzy,
                     !.target = r.target,
                     !.idx = r.idx, !.cos_mat = r.cos_mat, !.out = r.out],
                 location_df, r.arrays)

\* the "Search Nearby" button
NearbyCall(selected_location, two_radius) ==
    /\ CanRun
    /\ \E c \in { get_loc(location_df.columns, selected_location) } :
          IF c = 0
          THEN Logged([NoRun EXCEPT !.kind = "radius", !.name = selected_location,
                          !.two_radius = two_radius, !.outcome = "error",
                          !.raised = "KeyError", !.text = selected_location],
                      location_df, Arrays)
          ELSE \E sorted \in sort_values(BelowThreshold(c, ThresholdMetres(two_radius))) :
                  \E ser \in { head(sorted, DisplayCap) } :
                      Logged([NoRun EXCEPT !.kind = "radius", !.name = selected_location,
                                 !.two_radius = two_radius, !.idx = c,
                                 !.outcome = radius_outcome(ser),
                                 !.out = RadiusFrame(ser)],
                             frame_after_search(c), Arrays)

Recommend ==
    \E property_name \in QueryNames, top_n \in 1..MaxTopN, w \in Weights :
        RecommendCall(property_name, top_n, w)

Nearby ==
    \E selected_location \in list_to_sorted_unique(location_df.columns),
       two_radius \in RadiusChoices :
        NearbyCall(selected_location, two_radius)

Next == Recommend \/ Nearby

Spec == Init /\ [][Next]_vars

\* the ranking, over the worked example and every row of similarity levels
InitRank == InitWith({ SectorData } \cup BlockData)

SpecRank == InitRank /\ [][Next]_vars

\* the radius search, over every column of distances and the large table
InitRadius == InitWith({ BigData } \cup TownData)

SpecRadius == InitRadius /\ [][Next]_vars

\* both handlers over tables in which a property is also a reference location
InitSelf == InitWith({ LineData } \cup SquareData)

SpecSelf == InitSelf /\ [][Next]_vars

\* ------------------------------------------------ arrays of other shapes
\* an r x c array with 1.0 on the diagonal
Fill(r, c, t) ==
    [i \in 1..r |-> [j \in 1..c |-> IF i = j THEN SimOne ELSE ((i * j) + t) % SimOne]]

\* the shapes a pickled array comes in, for a universe of m properties: m x m,
\* one row, one column, one entry, two rows, and one property too many
Shapes(m) == { << m, m >>, << 1, m >>, << m, 1 >>, << 1, 1 >>, << 2, m >>,
               << m + 1, m + 1 >> }

ShapeData ==
    { Loaded(Frame(TownNames, << StrLabel(Downtown) >>, << << 300 >>, << 1200 >>, << 6000 >> >>),
             Fill(sh[1][1], sh[1][2], 1), Fill(sh[2][1], sh[2][2], 2),
             Fill(sh[3][1], sh[3][2], 3)) : sh \in [1..3 -> Shapes(3)] }

\* w3 of the signature, taken when the call gives two weights
DefaultW3 == 1

\* the weights a call gives: three, two, or one too many
GivenWeights == { << 30, 20, 8 >>, << 30, 20 >>, << 30, 20, 8, 1 >> }

InitShape == InitWith(ShapeData)

\* a call of recommend_properties_with_scores with the weights w: a fourth
\* weight is a TypeError of the call, a missing third one is the default
RecommendGiven ==
    \E property_name \in { AsStr(location_df.index[i]) : i \in 1..Len(location_df.index) },
       top_n \in { 1, MaxTopN }, w \in GivenWeights :
        /\ CanRun
        /\ IF Len(w) > 3
           THEN Logged([NoRun EXCEPT !.kind = "recommend", !.name = property_name,
                           !.top_n = top_n, !.w = w, !.outcome = "error",
                           !.raised = "TypeError"], location_df, Arrays)
           ELSE \E r \in { recommend_properties_with_scores(property_name, top_n,
                               w[1], w[2], IF Len(w) = 3 THEN w[3] ELSE DefaultW3) } :
                   Logged([NoRun EXCEPT !.kind = "recommend", !.name = property_name,
                              !.top_n = top_n, !.w = w,
                              !.outcome = IF r.raised = "" THEN "results" ELSE "error",
                              !.raised = r.raised, !.text = r.text, !.fuzzy = r.fuzzy,
                              !.target = r.target,
                              !.idx = r.idx, !.cos_mat = r.cos_mat, !.out = r.out],
                          location_df, r.arrays)

NextShape == RecommendGiven \/ Nearby

SpecShape == InitShape /\ [][NextShape]_vars

\* ------------------------------------------------- runs one after another
\* a few artifacts, the page's weights and their multiples, and a record of
\* one earlier run to set later runs against
Scaled(c, w) == << FMul(c, w[1]), FMul(c, w[2]), FMul(c, w[3]) >>

Scales == { 2, 3 }

PageWeights == << 30, 20, 8 >>

HistWeights == { PageWeights } \cup { Scaled(c, PageWeights) : c \in Scales }

HistData ==
    { SectorData } \cup
    { d \in BlockData : d.s1[1] \in { << SimOne, SimOne, SimOne, 9 >>, << SimOne, 9, 0, 0 >> } }

InitHist == InitWith(HistData)

RecommendHist ==
    \E property_name \in { AsStr(location_df.index[1]), AsStr(location_df.index[2]) },
       top_n \in { 1, MaxTopN - 1 }, w \in HistWeights :
        RecommendCall(property_name, top_n, w)

NearbyHist ==
    \E selected_location \in { Downtown } : NearbyCall(selected_location, 2)

\* remember the latest run
Remember ==
    /\ last.kind # "none"
    /\ earlier' = last
    /\ log' = << >>
    /\ UNCHANGED << artifacts, pickles, pc, last, threads >>

NextHist == RecommendHist \/ NearbyHist \/ Remember

SpecHist == InitHist /\ [][NextHist]_vars

\* a name that is no label and near none
Nowhere == << "z", "z", "z" >>

\* ---------------------------------------- runs that return, fail, are empty
\* the worked example, and a table with no property within 1 km
SeqData ==
    { SectorData } \cup
    { d \in TownData : d.df.data = << << 1200 >>, << 6000 >>, << 1000 >> >> }

InitSeq == InitWith(SeqData)

RecommendSeq ==
    /\ pc = "page"
    /\ \E property_name \in { AsStr(location_df.index[1]), Nowhere },
          top_n \in { 1, MaxTopN }, w \in { PageWeights } :
           RecommendCall(property_name, top_n, w)

NearbySeq ==
    \E selected_location \in { Downtown, Nowhere },
       two_radius \in { MinTwoRadius, MaxTwoRadius } :
        NearbyCall(selected_location, two_radius)

NextSeq == RecommendSeq \/ NearbySeq \/ Remember

SpecSeq == InitSeq /\ [][NextSeq]_vars

\* ------------------------------------------------------ the script's loads
\* The script from its first line: the four loads in one try, the check of
\* the table's type, then the page with its two buttons.  Every press of a
\* button runs the script again from the top; _load_pickle gives back the
\* object it has cached for a file that was read, and reads again a file that
\* failed.
FileNames == { "location_distance", "cosine_sim1", "cosine_sim2", "cosine_sim3" }

\* the files as they may lie on disk: any of them unreadable, and
\* location_distance.pkl holding a DataFrame or an array
LoadData ==
    { [d EXCEPT !.bad = b, !.df = [d.df EXCEPT !.type = ty]] :
        d \in SeqData, b \in SUBSET FileNames, ty \in { "DataFrame", "ndarray" } }

\* a name of the script not yet bound
Unbound == [type |-> "unbound", index |-> << >>, columns |-> << >>, data |-> << >>]

InitLoad ==
    /\ pickles \in LoadData
    /\ pc = "load_location"
    /\ location_df = Unbound
    /\ cosine_sim1 = << >>
    /\ cosine_sim2 = << >>
    /\ cosine_sim3 = << >>
    /\ last = NoRun
    /\ earlier = NoRun
    /\ log = << >>
    /\ threads = [t \in Threads |-> Idle]

\* the except of the loads left without st.stop()
after_load_error_goes_on == "check"

\* except Exception: st.error(...); st.stop()
after_load_error == "stopped"

\* the check of the table's type left out
checked_any_type(obj) == "page"

\* if not isinstance(location_df, pd.DataFrame): st.error(...); st.stop()
checked(obj) == IF obj.type = "DataFrame" THEN "page" ELSE "stopped"

\* where the script goes after _load_pickle(file): on, or to the except
AfterLoad(file, next) == IF file \in pickles.bad THEN after_load_error ELSE next

LoadLocation ==
    /\ pc = "load_location"
    /\ pc' = AfterLoad("location_distance", "load_sim1")
    /\ location_df' = IF "location_distance" \in pickles.bad THEN location_df ELSE pickles.df
    /\ UNCHANGED << cosine_sim1, cosine_sim2, cosine_sim3, pickles, last, earlier, log, threads >>

LoadSim1 ==
    /\ pc = "load_sim1"
    /\ pc' = AfterLoad("cosine_sim1", "load_sim2")
    /\ cosine_sim1' = IF "cosine_sim1" \in pickles.bad THEN cosine_sim1 ELSE pickles.s1
    /\ UNCHANGED << location_df, cosine_sim2, cosine_sim3, pickles, last, earlier, log, threads >>

LoadSim2 ==
    /\ pc = "load_sim2"
    /\ pc' = AfterLoad("cosine_sim2", "load_sim3")
    /\ cosine_sim2' = IF "cosine_sim2" \in pickles.bad THEN cosine_sim2 ELSE pickles.s2
    /\ UNCHANGED << location_df, cosine_sim1, cosine_sim3, pickles, last, earlier, log, threads >>

LoadSim3 ==
    /\ pc = "load_sim3"
    /\ pc' = AfterLoad("cosine_sim3", "check")
    /\ cosine_sim3' = IF "cosine_sim3" \in pickles.bad THEN cosine_sim3 ELSE pickles.s3
    /\ UNCHANGED << location_df, cosine_sim1, cosine_sim2, pickles, last, earlier, log, threads >>

Check ==
    /\ pc = "check"
    /\ pc' = checked(location_df)
    /\ UNCHANGED << artifacts, pickles, last, earlier, log, threads >>

\* a button press starts the script again, its names not yet bound
Rerun ==
    /\ pc = "page"
    /\ pc' = "load_location"
    /\ location_df' = Unbound
    /\ cosine_sim1' = << >>
    /\ cosine_sim2' = << >>
    /\ cosine_sim3' = << >>
    /\ UNCHANGED << pickles, last, earlier, log, threads >>

NextLoad ==
    \/ LoadLocation \/ LoadSim1 \/ LoadSim2 \/ LoadSim3 \/ Check \/ Rerun
    \/ RecommendSeq \/ NearbySeq

SpecLoad == InitLoad /\ [][NextLoad]_vars

\* ------------------------------------------------- handlers side by side
\* Two script runs (two sessions) share the objects _load_pickle returned and
\* run their handlers a statement at a time; every read of a shared object is
\* a step of its own.
ParData ==
    { SectorData } \cup { d \in BlockData : d.s1[1] = << SimOne, 9, 0, 0 >> }

InitPar == InitWith(ParData)

Busy(u) == threads[u].pc \notin { "idle", "done" }

\* thread t goes on with its locals changed, the objects as given
Step(t, locals, frame, arrays) ==
    /\ threads' = [threads EXCEPT ![t] =
                      [locals EXCEPT !.overlapped =
                          threads[t].overlapped \/ \E u \in Threads \ { t } : Busy(u)]]
    /\ location_df' = frame
    /\ cosine_sim1' = arrays[1]
    /\ cosine_sim2' = arrays[2]
    /\ cosine_sim3' = arrays[3]
    /\ UNCHANGED << pickles, pc, last, earlier, log >>

Local(t, locals) == Step(t, locals, location_df, Arrays)

Failed(t, error) ==
    [threads[t] EXCEPT !.pc = "done", !.outcome = "error", !.raised = error]

\* a button is pressed in session t
Start(t) ==
    /\ pc = "page"
    /\ threads[t].pc = "idle"
    /\ \/ \E property_name \in { AsStr(location_df.index[1]), AsStr(location_df.index[2]), Nowhere },
             top_n \in { 1, MaxTopN - 1 }, w \in { PageWeights } :
              Local(t, [Idle EXCEPT !.pc = "resolve", !.kind = "recommend",
                           !.name = property_name, !.top_n = top_n, !.w = w])
       \/ \E selected_location \in { Downtown, Nowhere }, two_radius \in { 2 } :
              Local(t, [Idle EXCEPT !.pc = "mask", !.kind = "radius",
                           !.name = selected_location, !.two_radius = two_radius])

\* target = _safe_get_index(location_df, property_name)
Resolve(t) ==
    /\ threads[t].pc = "resolve"
    /\ \E r \in { safe_get_index(location_df.index, threads[t].name) } :
          IF r.found
          THEN Local(t, [threads[t] EXCEPT !.pc = "mul1", !.target = r.v])
          ELSE Local(t, Failed(t, "ValueError"))

\* w1 * cosine_sim1
Mul1(t) ==
    /\ threads[t].pc = "mul1"
    /\ Local(t, [threads[t] EXCEPT !.pc = "mul2",
                    !.partial = MatScale(threads[t].w[1], cosine_sim1)])

\* ... + w2 * cosine_sim2
Mul2(t) ==
    /\ threads[t].pc = "mul2"
    /\ Local(t, [threads[t] EXCEPT !.pc = "mul3",
                    !.partial = MatAdd(threads[t].partial,
                                       MatScale(threads[t].w[2], cosine_sim2))])

\* ... + w3 * cosine_sim3, and the return of combine_similarity
Mul3(t) ==
    /\ threads[t].pc = "mul3"
    /\ \E cos_mat \in { MatAdd(threads[t].partial, MatScale(threads[t].w[3], cosine_sim3)) } :
          Step(t, IF cos_mat = Unbroadcast THEN Failed(t, "ValueError")
                  ELSE [threads[t] EXCEPT !.pc = "get_loc", !.partial = << >>,
                                          !.cos_mat = cos_mat],
               location_df,
               arrays_after_combine(threads[t].w[1], threads[t].w[2], threads[t].w[3]))

\* idx = location_df.index.get_loc(target), and cos_mat[idx]
GetLoc(t) ==
    /\ threads[t].pc = "get_loc"
    /\ \E idx \in { get_loc(location_df.index, threads[t].target) } :
          Local(t, IF idx = 0 THEN Failed(t, "KeyError")
                   ELSE IF idx > Rows(threads[t].cos_mat) THEN Failed(t, "IndexError")
                   ELSE [threads[t] EXCEPT !.pc = "rank", !.idx = idx])

\* the sort, the filter and the cut on the thread's own lists, then
\* location_df.index[top_indices] and the DataFrame out
Rank(t) ==
    /\ threads[t].pc = "rank"
    /\ \E kept \in { filtered(sorted_scores(Enumerate(threads[t].cos_mat[threads[t].idx])),
                               threads[t].idx, threads[t].top_n) } :
          Local(t, IF \E r \in 1..Len(kept) : kept[r][1] > Len(location_df.index)
                   THEN Failed(t, "IndexError")
                   ELSE [threads[t] EXCEPT !.pc = "done", !.outcome = "results",
                            !.out = RankedFrame(location_df.index, kept)])

\* location_df[selected_location] < radius_km * 1000
Mask(t) ==
    /\ threads[t].pc = "mask"
    /\ \E c \in { get_loc(location_df.columns, threads[t].name) } :
          Local(t, IF c = 0 THEN Failed(t, "KeyError")
                   ELSE [threads[t] EXCEPT !.pc = "select", !.idx = c,
                            !.mask = { e[1] : e \in BelowThreshold(c,
                                          ThresholdMetres(threads[t].two_radius)) }])

\* location_df[mask][selected_location]
Select(t) ==
    /\ threads[t].pc = "select"
    /\ Local(t, [threads[t] EXCEPT !.pc = "sort",
                    !.entries = { << i, location_df.data[i][threads[t].idx] >> :
                                     i \in threads[t].mask }])

\* .sort_values(), .head(15) and what is shown
Sort(t) ==
    /\ threads[t].pc = "sort"
    /\ \E sorted \in sort_values(threads[t].entries) :
          \E ser \in { head(sorted, DisplayCap) } :
             Step(t, [threads[t] EXCEPT !.pc = "done", !.entries = {},
                         !.outcome = radius_outcome(ser), !.out = RadiusFrame(ser)],
                  frame_after_search(threads[t].idx), Arrays)

NextPar ==
    \E t \in Threads :
        \/ Start(t)
        \/ Resolve(t) \/ Mul1(t) \/ Mul2(t) \/ Mul3(t) \/ GetLoc(t) \/ Rank(t)
        \/ Mask(t) \/ Select(t) \/ Sort(t)

SpecPar == InitPar /\ [][NextPar]_vars

\* ------------------------------------------------------- names as typed
\* identifiers that are near one another: a changed digit, a changed case, a
\* longer one, and one far from the rest
NamePool == { << "A", "-", "1" >>, << "A", "-", "2" >>, << "a", "-", "1" >>,
              << "B", "-", "9" >>, << "A", "-", "1", "x", "x" >> }

\* every universe of up to MaxNames of them, in every order
Universes ==
    { u \in UNION { [1..n -> NamePool] : n \in 1..MaxNames } :
        \A i \in 1..Len(u) : \A j \in 1..Len(u) : i # j => u[i] # u[j] }

ResolveData ==
    { Loaded(Frame([i \in 1..Len(u) |-> StrLabel(u[i])], << StrLabel(Downtown) >>,
                   [i \in 1..Len(u) |-> << 600 * i >>]),
             Circulant([i \in 1..Len(u) |-> IF i = 1 THEN SimOne ELSE 9 - i]),
             Identity(Len(u)), Identity(Len(u))) : u \in Universes }

\* the names asked for: the identifiers, and names that are in no universe,
\* with ratios to the identifiers of 2/3, 3/5, 4/7 and 0
TypedNames ==
    NamePool \cup { << "A", "-", "3" >>, << "a", "-", "2" >>,
                    << "A", "-", "1", "z", "z" >>, << "A", "-", "z", "z" >>,
                    << "z", "z", "z" >> }

\* the locations asked for: the column, a name near it, a name far from it
TypedLocations ==
    { Downtown, << "D", "o", "w", "n", "t", "w", "n" >>, << "z", "z", "z" >> }

InitResolve == InitWith(ResolveData)

RecommendTyped ==
    \E property_name \in TypedNames, top_n \in { 1, MaxTopN }, w \in { PageWeights } :
        RecommendCall(property_name, top_n, w)

NearbyTyped ==
    \E selected_location \in TypedLocations, two_radius \in { MinTwoRadius, 3 } :
        NearbyCall(selected_location, two_radius)

NextResolve == RecommendTyped \/ NearbyTyped

SpecResolve == InitResolve /\ [][NextResolve]_vars

\* ================================================================= claims
Members == Len(location_df.index)

RecDone == last.kind = "recommend" /\ last.outcome = "results"

\* the target's row of the composite of the latest run
Row == last.cos_mat[last.idx]

\* the universe index of a returned property
IndexOf(label) == CHOOSE i \in 1..Members : location_df.index[i] = label

Returned == { IndexOf(last.out[r].Property) : r \in 1..Len(last.out) }

Position(i) == CHOOSE r \in 1..Len(last.out) : last.out[r].Property = location_df.index[i]

\* C1: a recommendation for a name of the universe returns without error, and
\* a returned result has exactly min(k, M - 1) entries, ranked 1, 2, ... in order
C1_ExactCount ==
    /\ (last.kind = "recommend" /\ InIndex(location_df.index, last.name))
          => last.outcome = "results"
    /\ RecDone =>
          /\ Len(last.out) = Min2(last.top_n, Members - 1)
          /\ \A r \in 1..Len(last.out) : last.out[r].Rank = r

\* a result cut short by the size of the universe: k > M - 1
C1_Witness ==
    /\ RecDone
    /\ last.top_n > Members - 1
    /\ Len(last.out) = Members - 1

\* C2: the target itself is never returned, whatever its own score, and no
\* other candidate is lost for it: the returned properties are distinct, and
\* when k >= M - 1 they are all the other members of the universe
C2_SelfExcluded ==
    RecDone =>
        /\ \A r \in 1..Len(last.out) : last.out[r].Property # location_df.index[last.idx]
        /\ Cardinality(Returned) = Min2(last.top_n, Members - 1)
        /\ last.top_n >= Members - 1 => Returned = (1..Members) \ { last.idx }

\* the target's own score is below another candidate's and ties with a third
C2_Witness ==
    /\ RecDone
    /\ \E i \in 1..Members : Row[i] > Row[last.idx]
    /\ \E j \in (1..Members) \ { last.idx } : Row[j] = Row[last.idx]
    /\ Len(last.out) = Members - 1

ExampleRun ==
    /\ artifacts = << SectorData.df, SectorData.s1, SectorData.s2, SectorData.s3 >>
    /\ last.kind = "recommend"
    /\ last.name = SectorNames[1].s
    /\ last.top_n = 1
    /\ last.w = << 1, 0, 0 >>

\* C3: the result is the top k of the target's row of the composite: scores do
\* not increase down the result, each is the composite's entry for the
\* returned property, no candidate left out scores above a returned one; and
\* the worked example returns [(1, "Sector-1-B", 0.9)]
C3_TopK ==
    /\ RecDone =>
          /\ \A r \in 1..(Len(last.out) - 1) :
                last.out[r].Similarity >= last.out[r + 1].Similarity
          /\ \A r \in 1..Len(last.out) :
                last.out[r].Similarity = Row[IndexOf(last.out[r].Property)]
          /\ \A i \in (1..Members) \ (Returned \cup { last.idx }) :
                \A r \in 1..Len(last.out) : Row[i] <= last.out[r].Similarity
    /\ ExampleRun =>
          /\ last.outcome = "results"
          /\ last.out = << [Rank |-> 1, Property |-> SectorNames[2], Similarity |-> 9] >>

\* a result that leaves out a candidate, with three different scores in the row
C3_Witness ==
    /\ RecDone
    /\ Len(last.out) = 2
    /\ last.out[1].Similarity > last.out[2].Similarity
    /\ \E i \in (1..Members) \ (Returned \cup { last.idx }) :
          Row[i] < last.out[2].Similarity

\* C4: of two candidates with equal scores the one with the lower index comes
\* first, and is the one kept when the cut at k falls between them
C4_TieBreak ==
    RecDone =>
        \A i \in (1..Members) \ { last.idx } : \A j \in (1..Members) \ { last.idx } :
            (i < j /\ Row[i] = Row[j] /\ j \in Returned)
                => (i \in Returned /\ Position(i) < Position(j))

\* two tied candidates with the cut between them, and two tied ones returned
C4_Witness ==
    /\ RecDone
    /\ \E i \in Returned : \E j \in (1..Members) \ (Returned \cup { last.idx }) :
          Row[i] = Row[j]
    /\ \E i \in Returned : \E j \in Returned : i # j /\ Row[i] = Row[j]

\* the sum as the code writes it, in floating point, and exactly
FloatSum(w, i, j) ==
    FAdd(FAdd(FMul(w[1], cosine_sim1[i][j]), FMul(w[2], cosine_sim2[i][j])),
         FMul(w[3], cosine_sim3[i][j]))

ExactSum(w, i, j) ==
    (w[1] * cosine_sim1[i][j]) + (w[2] * cosine_sim2[i][j]) + (w[3] * cosine_sim3[i][j])

\* no product or partial sum of the entry needs rounding
Representable(w, i, j) ==
    /\ Round(w[1] * cosine_sim1[i][j]) = w[1] * cosine_sim1[i][j]
    /\ Round(w[2] * cosine_sim2[i][j]) = w[2] * cosine_sim2[i][j]
    /\ Round(w[3] * cosine_sim3[i][j]) = w[3] * cosine_sim3[i][j]
    /\ Round((w[1] * cosine_sim1[i][j]) + (w[2] * cosine_sim2[i][j]))
          = (w[1] * cosine_sim1[i][j]) + (w[2] * cosine_sim2[i][j])
    /\ Round(ExactSum(w, i, j)) = ExactSum(w, i, j)

\* C5: every entry of the composite is w1*M1 + w2*M2 + w3*M3 at that entry with
\* the weights of the call as they are: the floating-point value of that sum,
\* which is the sum itself wherever nothing needs rounding
C5_Fusion ==
    RecDone =>
        /\ Len(last.cos_mat) = Members
        /\ \A i \in 1..Members : \A j \in 1..Members :
              /\ last.cos_mat[i][j] = FloatSum(last.w, i, j)
              /\ Representable(last.w, i, j)
                    => last.cos_mat[i][j] = ExactSum(last.w, i, j)

\* with the page's weights 30, 20, 8 an entry of the composite is above 1.0,
\* and it is the exact sum of three non-zero terms
C5_Witness ==
    /\ RecDone
    /\ last.w = << 30, 20, 8 >>
    /\ \E i \in 1..Members : \E j \in 1..Members :
          /\ last.cos_mat[i][j] > SimOne
          /\ Representable(last.w, i, j)
          /\ cosine_sim2[i][j] > 0 /\ cosine_sim3[i][j] > 0

\* ------------------------------------------------------- runs set together
BothRecommended ==
    /\ earlier.kind = "recommend" /\ earlier.outcome = "results"
    /\ RecDone
    /\ last.name = earlier.name
    /\ last.top_n = earlier.top_n

Properties(out) == [r \in 1..Len(out) |-> out[r].Property]

\* C6 as stated: the weights scaled by any positive constant c return the same
\* properties in the same order
C6_ScaleInvariant ==
    \A c \in Scales :
        (BothRecommended /\ last.w = Scaled(c, earlier.w))
            => Properties(last.out) = Properties(earlier.out)

\* C6 as amended: the weights scaled by a power of two (a scaling that is exact
\* in binary floating point) return the same properties in the same order
C6_ScaleByPowerOfTwo ==
    (BothRecommended /\ last.w = Scaled(2, earlier.w))
        => Properties(last.out) = Properties(earlier.out)

\* two runs with weights w and 2 * w that return two tied candidates
C6_Witness ==
    /\ BothRecommended
    /\ last.w = Scaled(2, earlier.w)
    /\ Len(last.out) >= 2
    /\ last.out[1].Similarity = last.out[2].Similarity

\* C7: a recommendation run again with the same name, k and weights returns the
\* same result, whatever runs came between the two
C7_Deterministic ==
    (earlier.kind = "recommend" /\ last.kind = "recommend"
        /\ Request(last) = Request(earlier))
        => /\ last.outcome = earlier.outcome
           /\ last.target = earlier.target
           /\ last.out = earlier.out

\* the same request run again after a run with other weights
C7_Witness ==
    /\ earlier.kind = "recommend" /\ RecDone
    /\ Request(last) = Request(earlier)
    /\ Len(log) = 2
    /\ log[1].kind = "recommend" /\ log[1].w # earlier.w
    /\ Len(last.out) >= 2

\* ------------------------------------------------------------ radius runs
RadDone == last.kind = "radius" /\ last.outcome \in { "info", "table" }

\* radius_km * 1000 for the radius of the latest run (held as 2 * radius_km)
Threshold == 500 * last.two_radius

\* the rows of the chosen column below the threshold
Qualifying == { i \in 1..Members : location_df.data[i][last.idx] < Threshold }

RowOf(name) == CHOOSE i \in 1..Members : AsStr(location_df.index[i]) = name

Shown == { RowOf(last.out[r].Property) : r \in 1..Len(last.out) }

\* C8: the radius search returns rows of the chosen column with their
\* distances, each distance strictly below radius_km * 1000, in ascending
\* order, at most 15 of them, and those the smallest of the qualifying ones
C8_WithinRadius ==
    RadDone =>
        /\ \A r \in 1..Len(last.out) :
              /\ last.out[r].Rank = r
              /\ last.out[r].Distance < Threshold
              /\ last.out[r].Distance
                    = location_df.data[RowOf(last.out[r].Property)][last.idx]
        /\ \A r \in 1..(Len(last.out) - 1) :
              last.out[r].Distance <= last.out[r + 1].Distance
        /\ Len(last.out) = Min2(DisplayCap, Cardinality(Qualifying))
        /\ Cardinality(Shown) = Len(last.out)
        /\ \A i \in Qualifying \ Shown : \A r \in 1..Len(last.out) :
              location_df.data[i][last.idx] >= last.out[r].Distance

\* more rows qualify than the cap shows, and a row at the threshold is left out
C8_Witness ==
    /\ RadDone
    /\ Cardinality(Qualifying) > DisplayCap
    /\ Len(last.out) = DisplayCap
    /\ \E i \in 1..Members : location_df.data[i][last.idx] = Threshold

DowntownRun ==
    /\ location_df.index = TownNames
    /\ location_df.data = << << 1200 >>, << 6000 >>, << 300 >> >>
    /\ last.kind = "radius"
    /\ last.name = Downtown
    /\ last.two_radius = 2

\* C9 as stated: distances A 1200, B 6000, C 300 and a radius of 1.0 km return
\* [(1, "C", 300), (2, "A", 1200)]
C9_ExampleAsStated ==
    DowntownRun =>
        last.out = << [Rank |-> 1, Property |-> << "C" >>, Distance |-> 300],
                      [Rank |-> 2, Property |-> << "A" >>, Distance |-> 1200] >>

\* C9 as amended: they return [(1, "C", 300)]; "A" at 1200 m is at or beyond
\* the 1000 m threshold and is left out like "B"
C9_Example ==
    DowntownRun =>
        /\ last.outcome = "table"
        /\ last.out = << [Rank |-> 1, Property |-> << "C" >>, Distance |-> 300] >>

C9_Witness == DowntownRun /\ Len(last.out) = 1

\* C10: a search in a column with no distance below the threshold ends with
\* the empty result reported, not with the error, and the error is reached
\* only when the column lookup fails
C10_EmptyIsNotError ==
    last.kind = "radius" =>
        /\ (last.idx # 0 /\ Qualifying = {})
              => (last.outcome = "info" /\ last.out = << >>)
        /\ last.outcome = "error"
              <=> get_loc(location_df.columns, last.name) = 0
        /\ last.outcome = "info" => last.out = << >>

\* a radius below every distance of the column
C10_Witness ==
    /\ RadDone
    /\ last.outcome = "info"
    /\ \A i \in 1..Members : location_df.data[i][last.idx] >= Threshold

\* the error outcome of a radius run
C10_ErrorReached == last.kind = "radius" /\ last.outcome = "error"

\* ------------------------------------------------- the reference itself
\* the rows whose identifier is the reference location of the latest radius run
SelfRows == { i \in 1..Members : AsStr(location_df.index[i]) = last.name }

\* the rows of the chosen column at distance 0 or less
ZeroRows == { i \in 1..Members : location_df.data[i][last.idx] <= 0 }

ShownAt(i) == { r \in 1..Len(last.out) :
                  /\ last.out[r].Property = AsStr(location_df.index[i])
                  /\ last.out[r].Distance = location_df.data[i][last.idx] }

C11_WitnessAtCap ==
    /\ RadDone
    /\ Cardinality(Qualifying) > DisplayCap
    /\ \E i \in SelfRows : ShownAt(i) = { 1 }

\* ---------------------------------------------------------- the resolver
RecRun == last.kind = "recommend"

\* the identifiers other than the name whose ratio to it meets the cutoff
NearOthers ==
    { i \in 1..Members :
        /\ AsStr(location_df.index[i]) # last.name
        /\ MeetsCutoff(ratio(AsStr(location_df.index[i]), last.name)) }

\* C12: a name that is equal, character for character, to an identifier of the
\* universe resolves to that identifier, however near the other identifiers
\* are to it, and get_close_matches is not called
C12_ExactMatch ==
    (RecRun /\ InIndex(location_df.index, last.name)) =>
        /\ last.raised = ""
        /\ ~last.fuzzy
        /\ last.target = last.name
        /\ location_df.index[last.idx] = StrLabel(last.name)

\* an identifier asked for in a universe that also has the same identifier in
\* another case, and a second identifier as near
C12_Witness ==
    /\ RecDone
    /\ last.name = << "A", "-", "1" >>
    /\ InIndex(location_df.index, << "a", "-", "1" >>)
    /\ Cardinality(NearOthers) = 2

\* the ratio of identifier i to the name of the latest run, and 0.6 as 3/5
RatioTo(i) == ratio(AsStr(location_df.index[i]), last.name)

AtLeastThreeFifths(r) == 5 * r[1] >= 3 * r[2]

\* C13: a name that is in no universe and to which no identifier has a ratio
\* of 0.6 or more is not found: the run ends with the error that carries the
\* name as it was asked for, with no composite, no index and no result; and a
\* name that is not an identifier is resolved only to an identifier whose
\* ratio is 0.6 or more and is the largest
C13_NotFound ==
    (RecRun /\ ~InIndex(location_df.index, last.name)) =>
        /\ (\A i \in 1..Members : ~AtLeastThreeFifths(RatioTo(i))) =>
              /\ last.outcome = "error"
              /\ last.raised = "ValueError"
              /\ last.text = last.name
              /\ last.cos_mat = << >> /\ last.idx = 0 /\ last.out = << >>
        /\ last.raised = "" =>
              /\ last.fuzzy
              /\ AtLeastThreeFifths(RatioTo(last.idx))
              /\ \A i \in 1..Members :
                    RatioTo(i)[1] * RatioTo(last.idx)[2] <= RatioTo(last.idx)[1] * RatioTo(i)[2]

\* a name not found with an identifier at ratio 4/7, just below the cutoff
C13_Witness ==
    /\ RecRun
    /\ last.raised = "ValueError"
    /\ \E i \in 1..Members : RatioTo(i) = << 4, 7 >>

\* a name resolved to an identifier at ratio 6/10, the cutoff itself
C13_WitnessAtCutoff ==
    /\ RecDone
    /\ last.fuzzy
    /\ RatioTo(last.idx) = << 6, 10 >>

\* ------------------------------------------------- the name of a location
RadRun == last.kind = "radius"

\* what the resolver makes of the location asked for, over the locations
ResolvedLocation == safe_get_index(location_df.columns, last.name)

\* C14: the radius search resolves the location name first: a name near a
\* location is searched as that location, and a name that cannot be resolved
\* ends with the not-found error and no other
C14_NearbyResolves ==
    RadRun =>
        /\ ResolvedLocation.found =>
              /\ last.outcome \in { "info", "table" }
              /\ last.idx = get_loc(location_df.columns, ResolvedLocation.v)
        /\ ~ResolvedLocation.found =>
              /\ last.outcome = "error"
              /\ last.raised = "ValueError"

\* what the handler does with a name that is no column label: the lookup
\* fails with KeyError, near a location or not
C14_LookupAsGiven ==
    RadRun =>
        /\ last.outcome = "error" <=> ~InIndex(location_df.columns, last.name)
        /\ last.outcome = "error" => (last.raised = "KeyError" /\ last.text = last.name)

\* a search for a name that the resolver would take for a location
C14_NearMissRun ==
    /\ RadRun
    /\ ~InIndex(location_df.columns, last.name)
    /\ ResolvedLocation.found
    /\ last.raised = "KeyError"

\* ------------------------------------------------------ shapes and weights
SameShapeAsUniverse(A) == Rows(A) = Members /\ Cols(A) = Members

WellShaped ==
    /\ SameShapeAsUniverse(cosine_sim1)
    /\ SameShapeAsUniverse(cosine_sim2)
    /\ SameShapeAsUniverse(cosine_sim3)

\* C15: a recommendation ends with an error whenever the weights given are not
\* as many as the arrays or an array has not the shape M x M of the universe
C15_FailFast ==
    (RecRun /\ (Len(last.w) # 3 \/ ~WellShaped)) => last.outcome = "error"

\* what the code does: a result is returned from an array of one row
C15_Coerced ==
    /\ RecDone
    /\ Len(last.w) = 3
    /\ Rows(cosine_sim2) = 1 /\ Cols(cosine_sim2) = Members
    /\ SameShapeAsUniverse(cosine_sim1) /\ SameShapeAsUniverse(cosine_sim3)
    /\ Len(last.out) = Members - 1

\* and a result is returned for two weights, the third taken as 1.0
C15_Defaulted == RecDone /\ WellShaped /\ Len(last.w) = 2

\* ------------------------------------------------------ the loaded objects
\* what the four files hold
AsLoaded == << pickles.df, pickles.s1, pickles.s2, pickles.s3 >>

\* C16: whatever runs were made, with a result, with an empty result or with
\* an error, the distance table and the three similarity arrays are what was
\* loaded
C16_InputsUnchanged == pc = "page" => artifacts = AsLoaded

\* a recommendation with a result, then one that failed, then a search with
\* an empty result
C16_Witness ==
    /\ earlier.kind = "recommend" /\ earlier.outcome = "results"
    /\ Len(earlier.out) >= 2
    /\ Len(log) = 2
    /\ log[1].kind = "recommend" /\ log[1].name = Nowhere
    /\ last.kind = "radius" /\ last.outcome = "info"

\* ------------------------------------------------------ side by side
Done(t) == threads[t].pc = "done"

\* what the request of thread t returns when it runs alone
AloneRecommend(t) ==
    recommend_properties_with_scores(threads[t].name, threads[t].top_n,
        threads[t].w[1], threads[t].w[2], threads[t].w[3])

AloneRadius(t) ==
    LET c == get_loc(location_df.columns, threads[t].name)
    IN  IF c = 0 THEN { [outcome |-> "error", out |-> << >>] }
        ELSE { [outcome |-> radius_outcome(head(sorted, DisplayCap)),
                out |-> RadiusFrame(head(sorted, DisplayCap))] :
               sorted \in sort_values(BelowThreshold(c, ThresholdMetres(threads[t].two_radius))) }

\* C17: however the steps of two handlers fall among one another, nothing
\* shared is written, so the loaded objects stay as loaded, and a handler that
\* has finished has the result its request has when it runs alone on them
C17_Concurrent ==
    /\ artifacts = AsLoaded
    /\ \A t \in Threads :
          Done(t) =>
              /\ threads[t].kind = "recommend" =>
                    /\ threads[t].raised = AloneRecommend(t).raised
                    /\ threads[t].out = AloneRecommend(t).out
                    /\ threads[t].outcome = "results" =>
                          threads[t].target = AloneRecommend(t).target
              /\ threads[t].kind = "radius" =>
                    [outcome |-> threads[t].outcome, out |-> threads[t].out]
                        \in AloneRadius(t)

\* a recommendation and a search both finished, each with a result, after
\* steps of each fell between steps of the other
C17_Witness ==
    /\ \A t \in Threads : Done(t) /\ threads[t].overlapped
    /\ \E t \in Threads : threads[t].kind = "recommend" /\ Len(threads[t].out) >= 2
    /\ \E t \in Threads : threads[t].kind = "radius" /\ threads[t].outcome = "table"

\* ------------------------------------------------------------- the loads
Readable == pickles.bad = {} /\ pickles.df.type = "DataFrame"

\* C18: a handler runs only where the page is reached, and there the four
\* objects are bound to what the four files hold and the table is a
\* DataFrame; when a file cannot be read or the table is no DataFrame, the
\* script stops before the page and no handler ever runs
C18_Barrier ==
    /\ pc = "page" => (Readable /\ artifacts = AsLoaded)
    /\ last.kind # "none" => Readable
    /\ ~Readable =>
          /\ last.kind = "none"
          /\ pc \in { "load_location", "load_sim1", "load_sim2", "load_sim3",
                       "check", "stopped" }
    /\ pc = "stopped" => ~Readable

\* a recommendation served on a page whose script was run again
C18_Witness ==
    /\ RecDone /\ Len(last.out) >= 2
    /\ pc = "load_sim2"
    /\ Readable

\* the script stopped at the third load, two objects bound and two not
C18_StoppedHalfway ==
    /\ pc = "stopped"
    /\ location_df = pickles.df /\ cosine_sim1 = pickles.s1
    /\ cosine_sim2 = << >> /\ cosine_sim3 = << >>
    /\ last.kind = "none"

====
